---- MODULE Spec2Model ----
(***************************************************************************)
(* mdbook-puml: the scanner for plantuml fences (find_pumls / PumlIter),   *)
(* the rewriter (Compiler::replace_all), the renderer of one block         *)
(* (Puml::render, Puml::uuid, find_name) and the file cache                *)
(* (Compiler::compile), from src/src/lib.rs.                               *)
(*                                                                         *)
(* Text is a sequence of one-character strings.  Offsets are the byte      *)
(* offsets of the Rust code: 0-based, ranges half open.                    *)
(***************************************************************************)
EXTENDS Integers, Sequences, FiniteSets, TLC

VARIABLES s, depth, it, previous_end_index, replaced, link, pc,
          outdir, tmpdir, cp, hist, calls

\* s, depth            the arguments of replace_all (lib.rs:119)
\* it                  the offset the FindIter of PumlIter has reached (lib.rs:200)
\* previous_end_index  lib.rs:123
\* replaced            lib.rs:124
\* link                the block of the loop (lib.rs:126)
\* pc                  where replace_all stands: "for", "render", "compile",
\*                     "done"; "threads" while only compile calls run
\* outdir, tmpdir      the files of Compiler.outdir and Compiler.tmpdir (lib.rs:60-63)
\* cp                  the frame of the compile call of each thread (lib.rs:66-117)
\* hist                the blocks the loop has taken, each with the length of
\*                     the output when it was taken, its outcome and its
\*                     substitution
\* calls               the compile calls that returned, in order
vars == <<s, depth, it, previous_end_index, replaced, link, pc,
          outdir, tmpdir, cp, hist, calls>>

(***************************************************************************)
(* Bounds of the model.                                                    *)
(***************************************************************************)
\* a document is the concatenation of at most MaxChunks chunks of Chunks
MaxChunks == 4
\* a chapter lies in the book's src directory or MaxDepth directories below
MaxDepth == 1
\* number of threads of the concurrent specification
NProcs == 2
\* width kept of the 64-bit value of DefaultHasher::finish
HashBits == 12

(***************************************************************************)
(* Literals                                                                *)
(***************************************************************************)
\* the byte 0x60 (grave accent), which a TLA+ string literal cannot hold
BT == "bt"
\* lib.rs:228, pattern 0
OPEN == <<BT,BT,BT,"p","l","a","n","t","u","m","l","\n">>
\* lib.rs:228, pattern 1
FENCE == <<BT,BT,BT>>
\* lib.rs:228, pattern 2
OPEN_IGNORE == <<BT,BT,BT,"p","l","a","n","t","u","m","l",",","i","g","n","o","r","e","\n">>
\* lib.rs:228, the patterns in the order given to the builder (ids 0, 1, 2)
Patterns == <<OPEN, FENCE, OPEN_IGNORE>>

\* lib.rs:17
REL_OUTDIR == <<"p","l","a","n","t","u","m","l","_","i","m","a","g","e","s">>
\* lib.rs:18
SVG == <<"s","v","g">>
\* lib.rs:19
PUML == <<"p","u","m","l">>
\* lib.rs:235
STARTUML == <<"@","s","t","a","r","t","u","m","l"," ">>

\* the slice s[a..b] of Rust
Slice(str, a, b) == SubSeq(str, a + 1, b)

(***************************************************************************)
(* The scanner: AhoCorasick with MatchKind::LeftmostLongest over Patterns, *)
(* and PumlIter on top of its FindIter.                                    *)
(***************************************************************************)
\* a match of FindIter: pattern id and the byte range; NoMatch is None
NoMatch == [pattern |-> -1, start |-> 0, end |-> 0]

\* pattern k (0, 1, 2) occurs in str at offset i
MatchAt(str, i, k) ==
    /\ i + Len(Patterns[k + 1]) <= Len(str)
    /\ Slice(str, i, i + Len(Patterns[k + 1])) = Patterns[k + 1]

\* one call of FindIter::next with the search at offset i: the leftmost
\* offset at which a pattern occurs and, there, the longest pattern
RECURSIVE ACFind(_, _)
ACFind(str, i) ==
    IF i >= Len(str) THEN NoMatch
    ELSE LET ks == {k \in 0..(Len(Patterns) - 1) : MatchAt(str, i, k)}
         IN  IF ks = {} THEN ACFind(str, i + 1)
             ELSE LET k == CHOOSE a \in ks :
                              \A b \in ks : Len(Patterns[b + 1]) <= Len(Patterns[a + 1])
                  IN  [pattern |-> k, start |-> i, end |-> i + Len(Patterns[k + 1])]

\* a mutant of FindStart: the loop that skips pattern 1 is left out
FindStartAny(str, pos) == ACFind(str, pos)

\* PumlIter::next, lines 205-210: the next match that is not pattern 1
RECURSIVE FindStart(_, _)
FindStart(str, pos) ==
    LET m == ACFind(str, pos)
    IN  IF m = NoMatch THEN NoMatch
        ELSE IF m.pattern # 1 THEN m
        ELSE FindStart(str, m.end)

\* a mutant of FindEnd: a missing closing delimiter closes the block at the
\* end of the text
FindEndOrEof(str, start) ==
    LET m == ACFind(str, start.end)
    IN  IF m = NoMatch THEN [pattern |-> 1, start |-> Len(str), end |-> Len(str)]
        ELSE m

\* PumlIter::next, line 212: the match after the opening one, whatever its
\* pattern
FindEnd(str, start) == ACFind(str, start.end)

\* struct Puml
MkPuml(start, end, contents, ignore) ==
    [start |-> start, end |-> end, contents |-> contents, ignore |-> ignore]

NoPuml == MkPuml(0, 0, <<>>, FALSE)

\* PumlIter::next on the text str with the FindIter at offset pos: the Puml
\* yielded (some = FALSE for None) and the offset the FindIter is left at
PumlNext(str, pos) ==
    LET start == FindStart(str, pos)
    IN  IF start = NoMatch
        THEN [some |-> FALSE, puml |-> NoPuml, pos |-> Len(str)]
        ELSE LET end == FindEnd(str, start)
             IN  IF end = NoMatch
                 THEN [some |-> FALSE, puml |-> NoPuml, pos |-> Len(str)]
                 ELSE [some |-> TRUE,
                       puml |-> MkPuml(start.start, end.end,
                                       Slice(str, start.end, end.start),
                                       start.pattern = 2),
                       pos  |-> end.end]

\* find_pumls(str).collect(), from the FindIter offset pos on
RECURSIVE CollectPumls(_, _)
CollectPumls(str, pos) ==
    LET n == PumlNext(str, pos)
    IN  IF n.some THEN <<n.puml>> \o CollectPumls(str, n.pos) ELSE <<>>

find_pumls(str) == CollectPumls(str, 0)

\* find_name: the rest of the first line after "@startuml "
RECURSIVE UpToNewline(_)
UpToNewline(m) ==
    IF m = <<>> \/ Head(m) = "\n" THEN <<>> ELSE <<Head(m)>> \o UpToNewline(Tail(m))

find_name(contents) ==
    IF /\ Len(contents) >= Len(STARTUML)
       /\ SubSeq(contents, 1, Len(STARTUML)) = STARTUML
    THEN [some |-> TRUE,
          name |-> UpToNewline(SubSeq(contents, Len(STARTUML) + 1, Len(contents)))]
    ELSE [some |-> FALSE, name |-> <<>>]

(***************************************************************************)
(* Puml::uuid and the formatting of a Uuid.                                *)
(***************************************************************************)
\* the byte value of a character of the model's texts
Byte(c) ==
    CASE c = BT   -> 96  [] c = "\n" -> 10  [] c = " "  -> 32  [] c = "@" -> 64
      [] c = ","  -> 44  [] c = "A"  -> 65  [] c = "a"  -> 97  [] c = "e" -> 101
      [] c = "g"  -> 103 [] c = "i"  -> 105 [] c = "l"  -> 108 [] c = "m" -> 109
      [] c = "n"  -> 110 [] c = "o"  -> 111 [] c = "p"  -> 112 [] c = "r" -> 114
      [] c = "s"  -> 115 [] c = "t"  -> 116 [] c = "u"  -> 117 [] c = "x" -> 120

\* DefaultHasher: finish() is a function of the bytes written so far.  The
\* 64-bit SipHash value is abstracted to a HashBits-bit polynomial hash.
RECURSIVE HashFrom(_, _)
HashFrom(h, bytes) ==
    IF bytes = <<>> THEN h
    ELSE HashFrom((h * 33 + Head(bytes)) % (2 ^ HashBits), Tail(bytes))

finish(bytes) == HashFrom(5381 % (2 ^ HashBits), bytes)

\* a mutant of uuid: the position-dependent value start is hashed as well
uuid_of_position(puml) ==
    LET written == [i \in 1..Len(puml.contents) |-> Byte(puml.contents[i])]
                   \o <<puml.start % 256>>
    IN  [hi |-> finish(written), lo |-> finish(written \o <<0>>)]

\* Puml::uuid: lhs = finish() after write(contents), rhs = finish() after
\* write_u8(0) on the same hasher; the Uuid is lhs << 64 | rhs
uuid(puml) ==
    LET written == [i \in 1..Len(puml.contents) |-> Byte(puml.contents[i])]
    IN  [hi |-> finish(written), lo |-> finish(written \o <<0>>)]

HexDigits == <<"0","1","2","3","4","5","6","7","8","9","a","b","c","d","e","f">>

\* n as exactly k lower-case hexadecimal digits
RECURSIVE Hex(_, _)
Hex(n, k) == IF k = 0 THEN <<>> ELSE Hex(n \div 16, k - 1) \o <<HexDigits[(n % 16) + 1]>>

\* Display of Uuid: 8-4-4-4-12 hexadecimal digits of the 128-bit value
UuidToString(u) ==
    LET h == Hex(u.hi, 16)
        l == Hex(u.lo, 16)
    IN  SubSeq(h, 1, 8) \o <<"-">> \o SubSeq(h, 9, 12) \o <<"-">> \o SubSeq(h, 13, 16)
        \o <<"-">> \o SubSeq(l, 1, 4) \o <<"-">> \o SubSeq(l, 5, 16)

(***************************************************************************)
(* Paths and directories.  A directory is the set of its files, each a     *)
(* record of its name and its data.                                        *)
(***************************************************************************)
\* Path::file_stem of a file name without separators
FileStem(f) ==
    LET dots == {i \in 1..Len(f) : f[i] = "."}
    IN  IF dots = {} THEN f
        ELSE LET j == CHOOSE i \in dots : \A k \in dots : k <= i
             IN  IF j = 1 THEN f ELSE SubSeq(f, 1, j - 1)

\* Path::with_extension: an empty path has no file name and is left as it is
WithExtension(f, ext) == IF f = <<>> THEN f ELSE FileStem(f) \o <<".">> \o ext

Exists(dir, f) == \E e \in dir : e.name = f
Data(dir, f) == (CHOOSE e \in dir : e.name = f).data
Put(dir, f, d) == {e \in dir : e.name # f} \cup {[name |-> f, data |-> d]}
Remove(dir, f) == {e \in dir : e.name # f}

\* what the files hold: the diagram source written by compile, and the image
\* plantuml makes of a diagram source
PumlFile(text) == [kind |-> "puml", text |-> text]
SvgOf(text) == [kind |-> "svg", text |-> text]

(***************************************************************************)
(* Compiler::compile, one call per thread p.  cp[p] is the frame of the    *)
(* call: where it stands, its Target, whether it has issued the plantuml   *)
(* command, whether it returned at the cache check, and its result.        *)
(***************************************************************************)
Procs == 1..NProcs

\* struct Target
MkTarget(output, input, name, output_type) ==
    [output |-> output, input |-> input, name |-> name, output_type |-> output_type]

NoTarget == MkTarget([hi |-> 0, lo |-> 0], <<>>, [some |-> FALSE, name |-> <<>>], SVG)

Idle == [pc |-> "idle", target |-> NoTarget, invoked |-> FALSE, hit |-> FALSE,
         result |-> "none"]

\* the frame of a call of compile(target) that has just been entered
Enter(target) == [Idle EXCEPT !.pc = "check", !.target = target]

\* lines 67-68
Filename(target) == UuidToString(target.output)
\* a mutant of Outfile: the extension is left out
OutfileNoExtension(target) == Filename(target)

\* lines 69-71
Outfile(target) == WithExtension(Filename(target), target.output_type)
\* line 80
Inputfile(target) == WithExtension(Filename(target), PUML)

\* lines 100-107: the file plantuml is taken to have written in tmpdir
Compiled(target) ==
    WithExtension(IF target.name.some THEN target.name.name ELSE Filename(target),
                  target.output_type)

\* plantuml -tsvg on the file input of tmpdir: the image of what the file
\* holds is written beside it, named after the diagram ("@startuml <name>")
\* when it has a name and after the input file otherwise
Plantuml(dir, input, output_type) ==
    LET text  == Data(dir, input).text
        named == /\ Len(text) >= Len(STARTUML)
                 /\ SubSeq(text, 1, Len(STARTUML)) = STARTUML
        name  == UpToNewline(SubSeq(text, Len(STARTUML) + 1, Len(text)))
    IN  Put(dir,
            WithExtension(IF named THEN name ELSE FileStem(input), output_type),
            SvgOf(text))

\* lines 73-77: the cache check
CompileCheck(p) ==
    /\ cp[p].pc = "check"
    /\ IF Exists(outdir, Outfile(cp[p].target))
       THEN cp' = [cp EXCEPT ![p].pc = "ret", ![p].hit = TRUE, ![p].result = "ok"]
       ELSE cp' = [cp EXCEPT ![p].pc = "write"]
    /\ UNCHANGED <<s, depth, it, previous_end_index, replaced, link, pc,
                   outdir, tmpdir, hist, calls>>

\* lines 79-81: std::fs::write of the tmp puml file, which may fail
CompileWrite(p) ==
    /\ cp[p].pc = "write"
    /\ \E ok \in BOOLEAN :
         IF ok
         THEN /\ tmpdir' = Put(tmpdir, Inputfile(cp[p].target),
                               PumlFile(cp[p].target.input))
              /\ cp' = [cp EXCEPT ![p].pc = "run"]
         ELSE /\ tmpdir' = tmpdir
              /\ cp' = [cp EXCEPT ![p].pc = "ret", ![p].result = "err"]
    /\ UNCHANGED <<s, depth, it, previous_end_index, replaced, link, pc,
                   outdir, hist, calls>>

\* lines 83-97: the plantuml command; it cannot be run, or exits with a
\* failure, or exits with success having written its image
CompileRun(p) ==
    /\ cp[p].pc = "run"
    /\ \E status \in {"not run", "failure", "success"} :
         IF status = "success"
         THEN /\ tmpdir' = Plantuml(tmpdir, Inputfile(cp[p].target),
                                    cp[p].target.output_type)
              /\ cp' = [cp EXCEPT ![p].pc = "rename", ![p].invoked = TRUE]
         ELSE /\ tmpdir' = tmpdir
              /\ cp' = [cp EXCEPT ![p].pc = "ret", ![p].invoked = TRUE,
                                  ![p].result = "err"]
    /\ UNCHANGED <<s, depth, it, previous_end_index, replaced, link, pc,
                   outdir, hist, calls>>

\* a mutant of RenameStep: the move is a copy followed by a removal, and a
\* failure of the removal is reported after the copy was made
RenameStepCopyFirst(out, tmp, target, ok) ==
    IF Exists(tmp, Compiled(target))
    THEN [outdir |-> Put(out, Outfile(target), Data(tmp, Compiled(target))),
          tmpdir |-> IF ok THEN Remove(tmp, Compiled(target)) ELSE tmp,
          result |-> IF ok THEN "ok" ELSE "err"]
    ELSE [outdir |-> out, tmpdir |-> tmp, result |-> "err"]

\* lines 108-116: std::fs::rename of the compiled file to the outfile; it
\* fails when the file is not there, and may fail (ok = FALSE) when it is
RenameStep(out, tmp, target, ok) ==
    IF ok /\ Exists(tmp, Compiled(target))
    THEN [outdir |-> Put(out, Outfile(target), Data(tmp, Compiled(target))),
          tmpdir |-> Remove(tmp, Compiled(target)),
          result |-> "ok"]
    ELSE [outdir |-> out, tmpdir |-> tmp, result |-> "err"]

\* lines 99-116: the compiled file is moved to the outdir
CompileRename(p) ==
    /\ cp[p].pc = "rename"
    /\ \E ok \in BOOLEAN :
         LET r == RenameStep(outdir, tmpdir, cp[p].target, ok)
         IN  /\ outdir' = r.outdir
             /\ tmpdir' = r.tmpdir
             /\ cp' = [cp EXCEPT ![p].pc = "ret", ![p].result = r.result]
    /\ UNCHANGED <<s, depth, it, previous_end_index, replaced, link, pc, hist, calls>>

(***************************************************************************)
(* Puml::render and Compiler::replace_all, run by thread 1.                *)
(***************************************************************************)
\* "../".repeat(n)
RECURSIVE Repeat(_, _)
Repeat(str, n) == IF n = 0 THEN <<>> ELSE str \o Repeat(str, n - 1)

\* a mutant of RenderIgnore: a line break is put before the closing fence
RenderIgnoreExtraLine(contents) == OPEN \o contents \o <<"\n">> \o FENCE

\* a mutant of RenderIgnore: the opening fence is copied as it was written
RenderIgnoreKeepQualifier(contents) == OPEN_IGNORE \o contents \o <<BT,BT,BT>>

\* lines 172-178: the text put in place of a block marked ignore
RenderIgnore(contents) ==
    <<BT,BT,BT,"p","l","a","n","t","u","m","l","\n">> \o contents \o <<BT,BT,BT>>

\* lines 189-196: the image reference
RenderImage(name, d, id) ==
    <<"!","[">> \o (IF name.some THEN name.name ELSE <<>>) \o <<"]","(">>
    \o Repeat(<<".",".","/">>, d) \o REL_OUTDIR \o <<"/">> \o UuidToString(id)
    \o <<".">> \o SVG \o <<")">>

\* lines 180-187: the Target render hands to compile
RenderTarget(puml) == MkTarget(uuid(puml), puml.contents, find_name(puml.contents), SVG)

\* a mutant of ErrCursor: a block that failed is skipped like a rendered one
ErrCursorSkip(puml) == puml.end

\* line 142: where the cursor is put when render failed
ErrCursor(puml) == puml.start

\* line 132: where the cursor is put when render succeeded
OkCursor(puml) == puml.end

\* a mutant of Gap: the text before a block is copied from the start of the
\* text
GapFromZero(str, from, puml) == Slice(str, 0, puml.start)

\* line 127: the text copied before a block
Gap(str, from, puml) == Slice(str, from, puml.start)

\* the last entry of hist, completed
Settle(h, outcome, new_content) ==
    [h EXCEPT ![Len(h)].outcome = outcome, ![Len(h)].new_content = new_content]

\* line 126 yielding a block, and line 127
ForNext ==
    /\ pc = "for"
    /\ LET n == PumlNext(s, it)
       IN  /\ n.some
           /\ link' = n.puml
           /\ it' = n.pos
           /\ replaced' = replaced \o Gap(s, previous_end_index, n.puml)
           /\ hist' = Append(hist, [puml |-> n.puml, at |-> Len(replaced'),
                                    outcome |-> "pending", new_content |-> <<>>])
    /\ pc' = "render"
    /\ UNCHANGED <<s, depth, previous_end_index, outdir, tmpdir, cp, calls>>

\* line 126 at the end of the iterator, and lines 147-148
ForEnd ==
    /\ pc = "for"
    /\ ~PumlNext(s, it).some
    /\ it' = PumlNext(s, it).pos
    /\ replaced' = replaced \o Slice(s, previous_end_index, Len(s))
    /\ pc' = "done"
    /\ UNCHANGED <<s, depth, previous_end_index, link, outdir, tmpdir, cp, hist, calls>>

\* lines 129-133 with lines 172-178: render of a block marked ignore
RenderIgnored ==
    /\ pc = "render"
    /\ link.ignore
    /\ replaced' = replaced \o RenderIgnore(link.contents)
    /\ previous_end_index' = OkCursor(link)
    /\ hist' = Settle(hist, "ok", RenderIgnore(link.contents))
    /\ pc' = "for"
    /\ UNCHANGED <<s, depth, it, link, outdir, tmpdir, cp, calls>>

\* lines 180-187: render calls compile
RenderCompile ==
    /\ pc = "render"
    /\ ~link.ignore
    /\ cp' = [cp EXCEPT ![1] = Enter(RenderTarget(link))]
    /\ pc' = "compile"
    /\ UNCHANGED <<s, depth, it, previous_end_index, replaced, link, outdir, tmpdir,
                   hist, calls>>

\* what calls records of a call that returns
CallRecord(frame) ==
    [input |-> frame.target.input, output |-> frame.target.output,
     invoked |-> frame.invoked, hit |-> frame.hit, result |-> frame.result,
     cached |-> Exists(outdir, Outfile(frame.target))]

\* compile returned Ok: lines 189-196 and 130-133
RenderOk ==
    /\ pc = "compile"
    /\ cp[1].pc = "ret"
    /\ cp[1].result = "ok"
    /\ LET new_content == RenderImage(cp[1].target.name, depth, cp[1].target.output)
       IN  /\ replaced' = replaced \o new_content
           /\ hist' = Settle(hist, "ok", new_content)
    /\ previous_end_index' = OkCursor(link)
    /\ calls' = Append(calls, CallRecord(cp[1]))
    /\ cp' = [cp EXCEPT ![1] = Idle]
    /\ pc' = "for"
    /\ UNCHANGED <<s, depth, it, link, outdir, tmpdir>>

\* compile returned Err: line 187 and lines 134-143
RenderErr ==
    /\ pc = "compile"
    /\ cp[1].pc = "ret"
    /\ cp[1].result = "err"
    /\ previous_end_index' = ErrCursor(link)
    /\ hist' = Settle(hist, "err", <<>>)
    /\ calls' = Append(calls, CallRecord(cp[1]))
    /\ cp' = [cp EXCEPT ![1] = Idle]
    /\ pc' = "for"
    /\ UNCHANGED <<s, depth, it, replaced, link, outdir, tmpdir>>

(***************************************************************************)
(* The texts replace_all is given, and the specification of one call.      *)
(***************************************************************************)
\* a diagram line that names the diagram A
STARTUML_A == <<"@","s","t","a","r","t","u","m","l"," ","A","\n">>

\* the pieces a text of the model is made of: the three delimiters, plain
\* text, a lone grave accent, and a whole block of the diagram named A
Chunks == <<OPEN, FENCE, OPEN_IGNORE, <<"x">>, <<BT>>, OPEN \o STARTUML_A \o FENCE>>

\* the pieces the contents of a block of these texts is made of
ContentChunks == <<STARTUML_A, <<"x">>, <<BT>>>>

RECURSIVE Flatten(_, _)
Flatten(pieces, f) == IF f = <<>> THEN <<>> ELSE pieces[Head(f)] \o Flatten(pieces, Tail(f))

Texts == {Flatten(Chunks, f) :
            f \in UNION {[1..n -> 1..Len(Chunks)] : n \in 0..MaxChunks}}

Init ==
    /\ s \in Texts
    /\ depth \in {0, MaxDepth}
    /\ it = 0
    /\ previous_end_index = 0
    /\ replaced = <<>>
    /\ link = NoPuml
    /\ pc = "for"
    /\ outdir = {}
    /\ tmpdir = {}
    /\ cp = [p \in Procs |-> Idle]
    /\ hist = <<>>
    /\ calls = <<>>

Next ==
    \/ ForNext
    \/ ForEnd
    \/ RenderIgnored
    \/ RenderCompile
    \/ RenderOk
    \/ RenderErr
    \/ \E p \in Procs : CompileCheck(p)
    \/ \E p \in Procs : CompileWrite(p)
    \/ \E p \in Procs : CompileRun(p)
    \/ \E p \in Procs : CompileRename(p)

Spec == Init /\ [][Next]_vars

(***************************************************************************)
(* Compiler::compile called by NProcs threads at once on one Compiler,     *)
(* each for a block of its own: the contents differ and so do the uuids.   *)
(***************************************************************************)
Contents == {Flatten(ContentChunks, f) :
               f \in UNION {[1..n -> 1..Len(ContentChunks)] : n \in 0..(MaxChunks - 2)}}

ConcInit ==
    /\ s = <<>>
    /\ depth = 0
    /\ it = 0
    /\ previous_end_index = 0
    /\ replaced = <<>>
    /\ link = NoPuml
    /\ pc = "threads"
    /\ outdir = {}
    /\ tmpdir = {}
    /\ \E c \in [Procs -> Contents] :
         /\ \A p, q \in Procs :
              p # q => /\ c[p] # c[q]
                       /\ uuid(MkPuml(0, 0, c[p], FALSE)) # uuid(MkPuml(0, 0, c[q], FALSE))
         /\ cp = [p \in Procs |-> Enter(RenderTarget(MkPuml(0, 0, c[p], FALSE)))]
    /\ hist = <<>>
    /\ calls = <<>>

ConcNext ==
    \/ \E p \in Procs : CompileCheck(p)
    \/ \E p \in Procs : CompileWrite(p)
    \/ \E p \in Procs : CompileRun(p)
    \/ \E p \in Procs : CompileRename(p)

ConcSpec == ConcInit /\ [][ConcNext]_vars

(***************************************************************************)
(* What the properties below speak of.                                     *)
(***************************************************************************)
Done == pc = "done"

\* block i of the loop, and the bytes of the text it covers
Block(i) == hist[i].puml
Original(i) == Slice(s, Block(i).start, Block(i).end)

\* what replace_all puts for block i: its substitution when render returned
\* Ok, its own bytes otherwise
Piece(i) == IF hist[i].outcome = "ok" THEN hist[i].new_content ELSE Original(i)

\* the bytes of the output from offset a (0-based): n of them, or those
\* there are when the output ends before
OutputAt(a, n) ==
    SubSeq(replaced, a + 1, IF a + n <= Len(replaced) THEN a + n ELSE Len(replaced))

\* the bytes of the text from offset a to offset b, or to its end when it
\* ends before
TextAt(a, b) == SubSeq(s, a + 1, IF b <= Len(s) THEN b ELSE Len(s))

\* where outdir holds the artifact of a block
ArtifactOf(puml) == UuidToString(uuid(puml)) \o <<".","s","v","g">>

\* every delimiter of the text, as FindIter yields them
RECURSIVE MatchesFrom(_, _)
MatchesFrom(str, pos) ==
    LET m == ACFind(str, pos)
    IN  IF m = NoMatch THEN <<>> ELSE <<m>> \o MatchesFrom(str, m.end)

\* the offset of the opening delimiter that no delimiter follows, -1 when
\* there is none: delimiters pair off from the left, bare fences between
\* blocks set aside
RECURSIVE UnclosedFrom(_, _)
UnclosedFrom(ms, i) ==
    IF i > Len(ms) THEN -1
    ELSE IF ms[i].pattern = 1 THEN UnclosedFrom(ms, i + 1)
    ELSE IF i = Len(ms) THEN ms[i].start
    ELSE UnclosedFrom(ms, i + 2)

Unclosed == UnclosedFrom(MatchesFrom(s, 0), 1)

\* the text up to the end of block n with every block up to it replaced by
\* its piece
RECURSIVE Rewritten(_)
Rewritten(n) ==
    IF n = 0 THEN <<>>
    ELSE Rewritten(n - 1)
         \o Slice(s, IF n = 1 THEN 0 ELSE Block(n - 1).end, Block(n).start)
         \o Piece(n)

(***************************************************************************)
(* The properties.                                                         *)
(***************************************************************************)

\* C1, as stated: when replace_all is done, the output holds at the place of
\* every block opened by "```plantuml,ignore\n" the bytes of the text from
\* the block's start to its end, fences included.
C1_SuppressedVerbatim ==
    Done => \A i \in 1..Len(hist) :
              Block(i).ignore =>
                OutputAt(hist[i].at, Block(i).end - Block(i).start) = Original(i)

\* C1, amended: when replace_all is done, the output holds at the place of
\* every block opened by "```plantuml,ignore\n" the fence "```plantuml\n",
\* then the bytes of the text that follow the opening delimiter up to the
\* closing one, unchanged, then "```"; this is shorter than the block, whose
\* opening fence is not reproduced.
C1_SuppressedContentKept ==
    Done => \A i \in 1..Len(hist) :
              Block(i).ignore =>
                LET from == Block(i).start + Len(OPEN_IGNORE)
                    n    == Len(Block(i).contents)
                    next == IF i < Len(hist) THEN hist[i + 1].at - Block(i + 1).start
                                             ELSE Len(replaced) - Len(s)
                IN  /\ OutputAt(hist[i].at, Len(OPEN)) = OPEN
                    /\ OutputAt(hist[i].at + Len(OPEN), n) = Slice(s, from, from + n)
                    /\ OutputAt(hist[i].at + Len(OPEN) + n, Len(FENCE)) = FENCE
                    /\ hist[i].at + Len(OPEN) + n + Len(FENCE) = next + Block(i).end
                    /\ Len(OPEN) + n + Len(FENCE) < Block(i).end - Block(i).start

\* a text with a block marked ignore that has contents has been rewritten
C1_Witness ==
    /\ Done
    /\ \E i \in 1..Len(hist) : Block(i).ignore /\ Block(i).contents # <<>>

C3_OutputIsConcatenation ==
    Done => /\ [i \in 1..Len(hist) |-> Block(i)] = find_pumls(s)
            /\ \A i \in 1..Len(hist) : hist[i].outcome \in {"ok", "err"}
            /\ replaced = Rewritten(Len(hist))
                          \o Slice(s, IF hist = <<>> THEN 0 ELSE Block(Len(hist)).end,
                                   Len(s))

\* a text with text between and after two blocks, the first failed and the
\* second rendered, has been rewritten
C3_Witness ==
    /\ Done
    /\ Len(hist) = 2
    /\ Block(1).end < Block(2).start
    /\ Block(2).end < Len(s)
    /\ hist[1].outcome = "err"
    /\ hist[2].outcome = "ok"

\* C4: when replace_all is done, every block of the text has been rendered;
\* a block whose render failed stands in the output once, at its place, as
\* it was written, and what follows it in the text follows it in the output;
\* the blocks after it that rendered stand in the output as their
\* substitution.
C4_FailureIsolated ==
    Done => \A i \in 1..Len(hist) :
              hist[i].outcome = "err" =>
                /\ Len(hist) = Len(find_pumls(s))
                /\ OutputAt(hist[i].at, Block(i).end - Block(i).start) = Original(i)
                /\ IF i < Len(hist)
                   THEN hist[i + 1].at - hist[i].at = Block(i + 1).start - Block(i).start
                   ELSE Len(replaced) - hist[i].at = Len(s) - Block(i).start
                /\ \A j \in (i + 1)..Len(hist) :
                     /\ hist[j].outcome \in {"ok", "err"}
                     /\ OutputAt(hist[j].at, Len(Piece(j))) = Piece(j)

\* a failed block was followed by a block rendered as an image
C4_Witness ==
    /\ Done
    /\ \E i, j \in 1..Len(hist) :
         /\ i < j
         /\ hist[i].outcome = "err"
         /\ hist[j].outcome = "ok"
         /\ ~Block(j).ignore

\* C5: when replace_all is done on a text with an opening delimiter that no
\* delimiter follows, no block starts at that delimiter or reaches beyond
\* it, and the output ends with the text from that delimiter on, unchanged.
C5_UnclosedDropped ==
    (Done /\ Unclosed >= 0) =>
        /\ \A i \in 1..Len(hist) : Block(i).start # Unclosed /\ Block(i).end <= Unclosed
        /\ Len(replaced) >= Len(s) - Unclosed
        /\ OutputAt(Len(replaced) - (Len(s) - Unclosed), Len(s) - Unclosed)
             = Slice(s, Unclosed, Len(s))

\* a text with a block and then an unclosed opening delimiter followed by
\* more text has been rewritten
C5_Witness ==
    /\ Done
    /\ Unclosed >= 0
    /\ Len(hist) >= 1
    /\ Len(s) > Unclosed + Len(OPEN_IGNORE)

\* C6: while threads run compile for blocks of different contents and
\* different uuids, whatever their names, an artifact that is in outdir under
\* the {uuid}.svg of a call is the image of the contents of that call.
C6_ArtifactsOwn ==
    \A p \in Procs :
      Exists(outdir, ArtifactOf(MkPuml(0, 0, cp[p].target.input, FALSE)))
        => Data(outdir, ArtifactOf(MkPuml(0, 0, cp[p].target.input, FALSE)))
             = SvgOf(cp[p].target.input)


\* C7, as stated: after a compile call that returned Err because the
\* renderer could not be run or failed or its file could not be moved, no
\* artifact is at the outfile, and the next compile call for that Identity
\* is a cache miss and invokes the renderer.
C7_RetryRuns ==
    \A i \in 1..Len(calls) :
      (calls[i].result = "err" /\ calls[i].invoked) =>
        /\ ~calls[i].cached
        /\ (i < Len(calls) /\ calls[i + 1].output = calls[i].output)
             => (~calls[i + 1].hit /\ calls[i + 1].invoked)

\* C7, amended: after a compile call that returned Err no artifact is at the
\* outfile, and the next compile call for that Identity does not return at
\* the cache check: it invokes the renderer, unless writing the tmp puml file
\* fails, and then it returns Err without an artifact again.
C7_RetryMisses ==
    \A i \in 1..Len(calls) :
      calls[i].result = "err" =>
        /\ ~calls[i].cached
        /\ (i < Len(calls) /\ calls[i + 1].output = calls[i].output)
             => /\ ~calls[i + 1].hit
                /\ calls[i + 1].invoked \/ calls[i + 1].result = "err"

\* a compile call failed after the renderer had run, and the next call for
\* the same content ran the renderer again
C7_Witness ==
    \E i \in 1..Len(calls) :
      /\ i < Len(calls)
      /\ calls[i].result = "err"
      /\ calls[i].invoked
      /\ calls[i + 1].input = calls[i].input
      /\ calls[i + 1].invoked

C9_IgnoreBecomesPlainFence ==
    /\ Len(calls) = Cardinality({i \in 1..Len(hist) :
                                   ~Block(i).ignore /\ hist[i].outcome # "pending"})
    /\ \A i \in 1..Len(hist) :
         (Block(i).ignore /\ hist[i].outcome # "pending")
           => /\ hist[i].outcome = "ok"
              /\ hist[i].new_content = OPEN \o Block(i).contents \o FENCE
              /\ Done => OutputAt(hist[i].at, Len(hist[i].new_content))
                           = OPEN \o Block(i).contents \o FENCE

\* a block marked ignore stood after a block that was compiled, and the text
\* has been rewritten
C9_Witness ==
    /\ Done
    /\ \E i, j \in 1..Len(hist) :
         /\ i < j
         /\ ~Block(i).ignore
         /\ Block(j).ignore
         /\ Block(j).contents # <<>>

\* C10: every block yielded has start < end; it starts with one of the two
\* opening delimiters, never with a bare "```" next to other text, and its
\* ignore flag says which; it ends with a delimiter, and its contents is the
\* text between the two; blocks come in the order of their starts and none
\* starts before the one before it ends.
C10_BlocksWellFormed ==
    \A i \in 1..Len(hist) :
      LET b  == Block(i)
          op == IF b.ignore THEN OPEN_IGNORE ELSE OPEN
      IN  /\ b.start < b.end
          /\ b.end <= Len(s)
          /\ TextAt(b.start, b.start + Len(op)) = op
          /\ \E k \in 1..Len(Patterns) :
               /\ b.start + Len(op) <= b.end - Len(Patterns[k])
               /\ TextAt(b.end - Len(Patterns[k]), b.end) = Patterns[k]
               /\ b.contents = TextAt(b.start + Len(op), b.end - Len(Patterns[k]))
          /\ i > 1 => /\ Block(i - 1).start <= b.start
                      /\ Block(i - 1).end <= b.start

\* a bare "```" was passed over before the first block, and the second
\* block starts where the first one ends
C10_Witness ==
    /\ Len(hist) = 2
    /\ ACFind(s, 0).pattern = 1
    /\ ACFind(s, 0).end <= Block(1).start
    /\ Block(1).end = Block(2).start

====
